---- MODULE Spec2Model ----
(***************************************************************************)
(* A model of deepgram.py, the command-line wrapper around the Deepgram    *)
(* transcription API: the query builder (parseQuery), the transcription    *)
(* client (getTranscipt), the transcript store (saveTranscript and         *)
(* readLocalTranscript), the result projector (parseTranscript) and the    *)
(* control flow of main.                                                   *)
(*                                                                         *)
(* Python values are given one shape each so that they can be compared:    *)
(*   - a flag whose default is False and whose value is a string is the    *)
(*     string itself, "" being the falsy value;                            *)
(*   - confidences and thresholds are tenths (9 is 0.9);                   *)
(*   - a path is a record [dir, name] (os.path.join / os.path.split);      *)
(*   - a file's content is the sequence of JSON tokens json.dumps wrote.   *)
(***************************************************************************)
EXTENDS Integers, Sequences, FiniteSets, TLC

VARIABLES
    args,        \* the argparse namespace returned by parse_args
    pc,          \* position of main
    err,         \* the unhandled exception that ended the run, "" if none
    idx,         \* position of the for loop in os.listdir(args.input_dir)
    creds,       \* the global creds, "" while the name is not bound
    credsLog,    \* what parseCredentials did: reads of DG_AUTH, prompts, stores
    requests,    \* the HTTP requests sent, in order
    files,       \* output folder: file name -> content, NoContent if absent
    files0,      \* the output folder as it was when the run started
    outputData,  \* the response in hand (outputData of main / queryData)
    result,      \* what the last call of parseTranscript returned
    stdout,      \* what was printed, in order
    apiParams    \* what the last call of parseQuery returned

vars == <<args, pc, err, idx, creds, credsLog, requests, files, files0,
          outputData, result, stdout, apiParams>>

----------------------------------------------------------------------------
(* Bounds of the model *)

NumEntries == 2     \* files in the --dir directory
MaxHits    == 2     \* hits of one search group of a response
MaxSearch  == 2     \* --search options on one command line

----------------------------------------------------------------------------
(* Python helpers *)

InSeq(x, s) == \E i \in 1..Len(s) : s[i] = x

\* search_threshold has default=False; a float otherwise
NoThreshold == -1

\* truth value of args.search_threshold: False and 0.0 are both falsy
ThresholdIsSet(t) == t # NoThreshold /\ t # 0

NoFile == [dir |-> "", name |-> ""]

PathJoin(d, n) == [dir |-> d, name |-> n]

PathStr(p) == p.dir \o "/" \o p.name

DefaultOutputFolder == "./transcripts/"

DefaultArgs ==
    [user |-> "", password |-> "", storeCreds |-> FALSE,
     input_file |-> NoFile, input_dir |-> "", output_folder |-> "",
     local |-> FALSE, keep |-> FALSE, url |-> "",
     model |-> "", language |-> "en-US", punctuate |-> FALSE, redact |-> "",
     verbose |-> FALSE, params |-> "",
     search |-> <<>>, search_threshold |-> NoThreshold,
     fqdn |-> "brain.deepgram.com"]

----------------------------------------------------------------------------
(* Transcript responses *)

Words == {"foo", "bar"}

Confidences == {2, 9}

SeqsUpTo(S, n) == UNION {[1..k -> S] : k \in 0..n}

\* hit lists: the hit at position i starts at word i
HitLists ==
    {[i \in 1..Len(cs) |-> [confidence |-> cs[i], start |-> i]] :
        cs \in SeqsUpTo(Confidences, MaxHits)}

Groups == [query : Words, hits : HitLists]

\* the second group of a search array: another term, or the same term again
SecondGroups ==
    {[query |-> "bar", hits |-> <<[confidence |-> 9, start |-> 1]>>],
     [query |-> "foo", hits |-> <<[confidence |-> 2, start |-> 1]>>]}

SearchArrays ==
    {<<>>} \cup {<<g>> : g \in Groups}
           \cup {<<g, h>> : g \in Groups, h \in SecondGroups}

\* A response: sha256 names the audio the service transcribed; hasAlt tells
\* whether results.channels[0].alternatives[0].transcript exists, hasSearch
\* whether results.channels[0].search exists.
Response(sha, hasAlt, hasSearch, search) ==
    [sha256 |-> sha, hasAlt |-> hasAlt,
     transcript |-> IF hasAlt THEN "hello foo bar" ELSE "",
     hasSearch |-> hasSearch, search |-> search]

NullResponse == Response("", FALSE, FALSE, <<>>)

----------------------------------------------------------------------------
(* json.dumps and json.load on responses *)

Quote(s) == "\"" \o s \o "\""

FloatRepr(c) == IF c >= 10 THEN ToString(c \div 10) \o "." \o ToString(c % 10)
                ELSE "0." \o ToString(c)

IntRepr(n) == ToString(n)

RECURSIVE DumpHits(_, _)
DumpHits(hits, i) ==
    IF i > Len(hits) THEN <<>>
    ELSE <<"{", Quote("confidence"), FloatRepr(hits[i].confidence),
                Quote("start"), IntRepr(hits[i].start), "}">>
         \o DumpHits(hits, i + 1)

RECURSIVE DumpGroups(_, _)
DumpGroups(groups, i) ==
    IF i > Len(groups) THEN <<>>
    ELSE <<"{", Quote("query"), Quote(groups[i].query), Quote("hits"), "[">>
         \o DumpHits(groups[i].hits, 1) \o <<"]", "}">>
         \o DumpGroups(groups, i + 1)

Dumps(r) ==
    <<"{", Quote("sha256"), Quote(r.sha256)>>
    \o (IF r.hasAlt THEN <<Quote("transcript"), Quote(r.transcript)>> ELSE <<>>)
    \o (IF r.hasSearch
        THEN <<Quote("search"), "[">> \o DumpGroups(r.search, 1) \o <<"]">>
        ELSE <<>>)
    \o <<"}">>

Strings == Words \cup {"", "hello foo bar", "old"}
                 \cup {"audio/" \o "audio" \o ToString(i) \o ".wav" : i \in 1..(NumEntries + 1)}
                 \cup {"other/" \o "audio" \o ToString(i) \o ".wav" : i \in 1..(NumEntries + 1)}
                 \cup {"http://example.com/a.wav"}

Unquote(tok) == CHOOSE s \in Strings : Quote(s) = tok

ParseFloat(tok) == CHOOSE c \in 0..10 : FloatRepr(c) = tok

ParseInt(tok) == CHOOSE n \in 0..(MaxHits + 1) : IntRepr(n) = tok

RECURSIVE ParseHits(_, _)
ParseHits(t, i) ==
    IF t[i] = "]" THEN [val |-> <<>>, next |-> i + 1]
    ELSE LET h    == [confidence |-> ParseFloat(t[i + 2]),
                      start |-> ParseInt(t[i + 4])]
             rest == ParseHits(t, i + 6)
         IN  [val |-> <<h>> \o rest.val, next |-> rest.next]

RECURSIVE ParseGroups(_, _)
ParseGroups(t, i) ==
    IF t[i] = "]" THEN [val |-> <<>>, next |-> i + 1]
    ELSE LET hs   == ParseHits(t, i + 5)
             g    == [query |-> Unquote(t[i + 2]), hits |-> hs.val]
             rest == ParseGroups(t, hs.next + 1)
         IN  [val |-> <<g>> \o rest.val, next |-> rest.next]

IsJson(t) == Len(t) >= 4 /\ t[1] = "{"

Loads(t) ==
    LET hasAlt    == t[4] = Quote("transcript")
        j         == IF hasAlt THEN 6 ELSE 4
        hasSearch == t[j] = Quote("search")
    IN  [sha256 |-> Unquote(t[3]),
         hasAlt |-> hasAlt,
         transcript |-> IF hasAlt THEN Unquote(t[5]) ELSE "",
         hasSearch |-> hasSearch,
         search |-> IF hasSearch THEN ParseGroups(t, j + 2).val ELSE <<>>]

NoContent == <<>>

Garbage == <<"<html>">>

----------------------------------------------------------------------------
(* parseQuery *)

\* AddParam forgetting to switch the separator
AddParamKeepsChar(q, pair) ==
    [apiParams |-> q.apiParams \o q.apiChar \o pair, apiChar |-> q.apiChar]

\* apiParams += str(apiChar + pair); apiChar = "&"
AddParam(q, pair) ==
    [apiParams |-> q.apiParams \o q.apiChar \o pair, apiChar |-> "&"]

\* the body of the loop over args.search: apiChar is left as it is
RECURSIVE AddSearch(_, _, _)
AddSearch(q, search, i) ==
    IF i > Len(search) THEN q
    ELSE AddSearch([apiParams |-> q.apiParams \o q.apiChar \o "search=" \o search[i],
                    apiChar |-> q.apiChar], search, i + 1)

parseQuery(a) ==
    LET q0 == [apiParams |-> "", apiChar |-> "?"]
        q1 == IF a.model # "" THEN AddParam(q0, "model=" \o a.model) ELSE q0
        q2 == IF a.language # "" THEN AddParam(q1, "language=" \o a.language) ELSE q1
        q3 == IF a.punctuate THEN AddParam(q2, "punctuate=true") ELSE q2
        q4 == IF a.redact # "" THEN AddParam(q3, "redact=" \o a.redact) ELSE q3
        q5 == IF a.search # <<>>
              THEN [apiParams |-> AddSearch(q4, a.search, 1).apiParams, apiChar |-> "&"]
              ELSE q4
        q6 == IF a.params # "" THEN AddParam(q5, a.params) ELSE q5
    IN  q6.apiParams

----------------------------------------------------------------------------
(* parseTranscript *)

\* An Output Record.  kind "full": the whole response (full); kind "text":
\* the transcript string (transcript); kind "dict": the dictionary with the
\* key 'transcript', the key 'search' when hasSearch, and one key per word
\* of DOMAIN words.  A word's value is the whole group of the response
\* (whole, with its query) or the temporary dictionary {"hits": [...]}.
NoRecord ==
    [kind |-> "none", full |-> NullResponse, transcript |-> "",
     hasSearch |-> FALSE, search |-> <<>>, words |-> <<>>]

FullRecord(queryData) == [NoRecord EXCEPT !.kind = "full", !.full = queryData]

TextRecord(queryData) ==
    [NoRecord EXCEPT !.kind = "text", !.transcript = queryData.transcript]

\* returnedData[thisWord] = value
Put(words, thisWord, value) ==
    [k \in (DOMAIN words) \cup {thisWord} |->
        IF k = thisWord THEN value ELSE words[k]]

\* the hits whose confidence is above the threshold, in their order
FilterHits(hits, threshold) ==
    SelectSeq(hits, LAMBDA hit : hit.confidence >= threshold)

\* the loop over searchData['search']
RECURSIVE SearchLoop(_, _, _, _)
SearchLoop(search, i, a, words) ==
    IF i > Len(search) THEN words
    ELSE LET searchTermData == search[i]
             thisWord       == searchTermData.query
         IN  IF InSeq(thisWord, a.search)
             THEN IF ThresholdIsSet(a.search_threshold)
                  THEN LET searchWordHits ==
                               FilterHits(searchTermData.hits, a.search_threshold)
                       IN  IF Len(searchWordHits) > 0
                           THEN SearchLoop(search, i + 1, a,
                                    Put(words, thisWord,
                                        [whole |-> FALSE, query |-> "",
                                         hits |-> searchWordHits]))
                           ELSE SearchLoop(search, i + 1, a, words)
                  ELSE SearchLoop(search, i + 1, a,
                           Put(words, thisWord,
                               [whole |-> TRUE, query |-> searchTermData.query,
                                hits |-> searchTermData.hits]))
             ELSE SearchLoop(search, i + 1, a, words)

\* a line of standard output: a message, or an Output Record as JSON
Message(text) == [text |-> text, record |-> NoRecord]

JsonLine(record) == [text |-> "json", record |-> record]

NoSearchMessage == Message("No search data found for transcript.")

\* print(json.dumps(returnedData)); return returnedData
Returned(record) ==
    [ret |-> "value", value |-> record, out |-> <<JsonLine(record)>>]

\* an exception leaves parseTranscript
Raised(exception) == [ret |-> exception, value |-> NoRecord, out |-> <<>>]

\* NoSearchData without the try / except
NoSearchDataUncaught == Raised("KeyError")

\* the except branch around queryData[...]['search']: print and return
NoSearchData == [ret |-> "None", value |-> NoRecord, out |-> <<NoSearchMessage>>]

NotCalled == [ret |-> "", value |-> NoRecord, out |-> <<>>]

\* ReturnsFull with the search branch tested before --verbose
ReturnsFullAfterSearch(a) == a.verbose /\ a.search = <<>>

\* if args.verbose
ReturnsFull(a) == a.verbose

parseTranscript(queryData, a) ==
    IF ReturnsFull(a) THEN Returned(FullRecord(queryData))
    ELSE IF a.search # <<>>
    THEN IF ~queryData.hasAlt THEN Raised("KeyError")
         ELSE IF ~queryData.hasSearch THEN NoSearchData
         ELSE IF a.search = <<"all">>
         THEN Returned([NoRecord EXCEPT !.kind = "dict",
                            !.transcript = queryData.transcript,
                            !.hasSearch = TRUE, !.search = queryData.search])
         ELSE Returned([NoRecord EXCEPT !.kind = "dict",
                            !.transcript = queryData.transcript,
                            !.words = SearchLoop(queryData.search, 1, a, <<>>)])
    ELSE IF ~queryData.hasAlt THEN Raised("KeyError")
         ELSE Returned(TextRecord(queryData))

----------------------------------------------------------------------------
(* The query builder on its own: every command line's query flags *)

Languages == {"en-US", "fr"}

SearchTerms == {"foo", "all"}

SearchLists == SeqsUpTo(SearchTerms, MaxSearch)

QueryArgs ==
    {[DefaultArgs EXCEPT !.model = m, !.language = l, !.punctuate = p,
                         !.redact = r, !.search = s, !.params = x] :
        m \in {"", "general"}, l \in Languages, p \in BOOLEAN,
        r \in {"", "pci"}, s \in SearchLists, x \in {"", "diarize=true"}}

Idle ==
    /\ err = "" /\ idx = 0 /\ creds = "" /\ credsLog = <<>> /\ requests = <<>>
    /\ files = <<>> /\ files0 = <<>> /\ stdout = <<>>

InitQuery ==
    /\ args \in QueryArgs
    /\ pc = "query"
    /\ outputData = NullResponse /\ result = NotCalled /\ apiParams = ""
    /\ Idle

BuildQuery ==
    /\ pc = "query"
    /\ apiParams' = parseQuery(args)
    /\ pc' = "queried"
    /\ UNCHANGED <<args, err, idx, creds, credsLog, requests, files, files0,
                   outputData, result, stdout>>

NextQuery == BuildQuery

SpecQuery == InitQuery /\ [][NextQuery]_vars

----------------------------------------------------------------------------
(* The result projector on its own: every response and output flags *)

Thresholds == {NoThreshold, 0, 5}

ProjectArgs ==
    {[DefaultArgs EXCEPT !.verbose = v, !.search = s, !.search_threshold = t] :
        v \in BOOLEAN, s \in SearchLists, t \in Thresholds}

ProjectResponses ==
    {Response("audio/audio1.wav", hasAlt, FALSE, <<>>) : hasAlt \in BOOLEAN}
    \cup {Response("audio/audio1.wav", hasAlt, TRUE, s) :
            hasAlt \in BOOLEAN, s \in SearchArrays}

InitProject ==
    /\ args \in ProjectArgs
    /\ outputData \in ProjectResponses
    /\ pc = "project"
    /\ result = NotCalled /\ apiParams = ""
    /\ Idle

Project ==
    /\ pc = "project"
    /\ result' = parseTranscript(outputData, args)
    /\ stdout' = stdout \o result'.out
    /\ pc' = "projected"
    /\ UNCHANGED <<args, err, idx, creds, credsLog, requests, files, files0,
                   outputData, apiParams>>

NextProject == Project

SpecProject == InitProject /\ [][NextProject]_vars

----------------------------------------------------------------------------
(* parseCredentials *)

B64(usr, passwd) == "b64(" \o usr \o ":" \o passwd \o ")"

\* environ is the value of DG_AUTH, "" when it is not in os.environ; typed
\* is what the user answers to a prompt.  log lists what the resolver did.
parseCredentials(a, environ, typed) ==
    IF ~a.storeCreds /\ environ # ""
    THEN [token |-> environ, log |-> <<"os.environ[DG_AUTH]">>]
    ELSE LET usr    == IF a.user # "" THEN a.user ELSE typed.usr
             passwd == IF a.password # "" THEN a.password ELSE typed.passwd
         IN  [token |-> B64(usr, passwd),
              log |-> <<"DG_AUTH in os.environ">>
                      \o (IF a.user # "" THEN <<>> ELSE <<"input(Username:)">>)
                      \o (IF a.password # "" THEN <<>> ELSE <<"getpass(Password:)">>)
                      \o (IF a.storeCreds THEN <<"export DG_AUTH">> ELSE <<>>)]

----------------------------------------------------------------------------
(* getTranscipt *)

\* What the service can answer to a request: a transcript with search data,
\* one without, a body without the transcript path, a body that is not
\* JSON, or no answer at all.
Replies == {"search", "no search", "no transcript", "not json", "no connection"}

FooGroup ==
    [query |-> "foo", hits |-> <<[confidence |-> 9, start |-> 1],
                                 [confidence |-> 2, start |-> 2]>>]

\* the body the service returns for a payload
Body(reply, payload) ==
    IF reply = "search" THEN Response(payload, TRUE, TRUE, <<FooGroup>>)
    ELSE IF reply = "no search" THEN Response(payload, TRUE, FALSE, <<>>)
    ELSE Response(payload, FALSE, FALSE, <<>>)

\* the if / elif chain that chooses content-type and payload
Payload(a, fileFromDir) ==
    IF a.input_file # NoFile
    THEN [contentType |-> "binary/message-pack", payload |-> PathStr(a.input_file)]
    ELSE IF fileFromDir # NoFile
    THEN [contentType |-> "binary/message-pack", payload |-> PathStr(fileFromDir)]
    ELSE IF a.url # ""
    THEN [contentType |-> "application/json", payload |-> a.url]
    ELSE [contentType |-> "application/json", payload |-> "http://example.com/a.wav"]

\* getTranscipt(args, fileFromDir) with the global creds cr and the reply of
\* the service: sent is the request it sent (none when it raised before
\* conn.request), exc the exception it raised, data what it returned.
getTranscipt(a, fileFromDir, cr, reply) ==
    LET p == Payload(a, fileFromDir)
        rq == [contentType |-> p.contentType, payload |-> p.payload,
               authorization |-> "Basic " \o cr,
               apiRequest |-> "/v2/listen?" \o parseQuery(a),
               host |-> a.fqdn]
    IN  IF cr = ""
        THEN [sent |-> <<>>, exc |-> "NameError", data |-> NullResponse]
        ELSE IF reply = "no connection"
        THEN [sent |-> <<rq>>, exc |-> "ConnectionError", data |-> NullResponse]
        ELSE IF reply = "not json"
        THEN [sent |-> <<rq>>, exc |-> "JSONDecodeError", data |-> NullResponse]
        ELSE [sent |-> <<rq>>, exc |-> "", data |-> Body(reply, p.payload)]

----------------------------------------------------------------------------
(* saveTranscript and readLocalTranscript *)

\* saveTranscript writing the transcript without its search data
saveTranscriptNoSearch(transcriptData) ==
    Dumps([transcriptData EXCEPT !.hasSearch = FALSE, !.search = <<>>])

\* outputFile.write(json.dumps(transcriptData))
saveTranscript(transcriptData) == Dumps(transcriptData)

\* json.load(rawTranscript)
readLocalTranscript(content) ==
    IF IsJson(content) THEN [exc |-> "", data |-> Loads(content)]
    ELSE [exc |-> "JSONDecodeError", data |-> NullResponse]

----------------------------------------------------------------------------
(* main *)

EntryName(i) == "audio" \o ToString(i) \o ".wav"

\* os.listdir(args.input_dir)
Listing == [i \in 1..NumEntries |-> EntryName(i)]

AudioDir == "audio"

\* str(os.path.join(outputFolder, file)) + ".json", within the output folder
OutputName(name) == name \o ".json"

OutputNames == {OutputName(EntryName(i)) : i \in 1..(NumEntries + 1)}

OutputFolder(a) ==
    IF a.output_folder # "" THEN a.output_folder ELSE DefaultOutputFolder

\* a transcript left in the output folder by an earlier run
OldContent == Dumps(Response("old", TRUE, FALSE, <<>>))

\* the transcripts a --local run can find on disk
LocalContents ==
    {Dumps(Body(reply, "old")) : reply \in {"search", "no search", "no transcript"}}
    \cup {Garbage}

\* NeedsCreds without the test of --local
NeedsCredsAlways(a) == TRUE

\* if not args.local
NeedsCreds(a) == ~a.local

\* NextPc with the exception swallowed
NextPcSwallow(exc, next) == next

\* an exception that nothing catches ends the run
NextPc(exc, next) == IF exc = "" THEN next ELSE "crashed"

OutputFlags ==
    {[verbose |-> FALSE, search |-> <<>>, search_threshold |-> NoThreshold],
     [verbose |-> TRUE, search |-> <<>>, search_threshold |-> NoThreshold],
     [verbose |-> FALSE, search |-> <<"foo">>, search_threshold |-> NoThreshold],
     [verbose |-> FALSE, search |-> <<"foo">>, search_threshold |-> 5],
     [verbose |-> FALSE, search |-> <<"foo">>, search_threshold |-> 0],
     [verbose |-> FALSE, search |-> <<"all">>, search_threshold |-> NoThreshold],
     [verbose |-> TRUE, search |-> <<"foo">>, search_threshold |-> 5]}

CredentialFlags ==
    {[user |-> "", password |-> "", storeCreds |-> FALSE],
     [user |-> "alice", password |-> "secret", storeCreds |-> TRUE]}

InputFiles ==
    {NoFile, PathJoin(AudioDir, EntryName(1)),
     PathJoin("other", EntryName(NumEntries + 1))}

MainArgs ==
    {[DefaultArgs EXCEPT !.local = l, !.keep = k, !.input_file = f,
                         !.input_dir = d, !.url = u, !.output_folder = o,
                         !.verbose = of.verbose, !.search = of.search,
                         !.search_threshold = of.search_threshold,
                         !.user = c.user, !.password = c.password,
                         !.storeCreds = c.storeCreds] :
        l \in BOOLEAN, k \in BOOLEAN, f \in InputFiles, d \in {"", AudioDir},
        u \in {"", "http://example.com/a.wav"}, o \in {"", "out"},
        of \in OutputFlags, c \in CredentialFlags}

\* the inputs of a run: each entry of os.listdir(args.input_dir) and
\* args.input_file
InputNames(a) ==
    (IF a.input_dir # "" THEN {Listing[i] : i \in 1..NumEntries} ELSE {})
    \cup (IF a.input_file # NoFile THEN {a.input_file.name} ELSE {})

\* the output folder holds old transcripts of this run's inputs, if any
Init ==
    /\ args \in MainArgs
    /\ pc = "start"
    /\ err = "" /\ idx = 0 /\ creds = "" /\ credsLog = <<>> /\ requests = <<>>
    /\ files0 \in {f \in [OutputNames -> {NoContent, OldContent}] :
                    \A n \in OutputNames :
                        f[n] # NoContent =>
                            \E i \in InputNames(args) : n = OutputName(i)}
    /\ files = files0
    /\ outputData = NullResponse /\ result = NotCalled
    /\ stdout = <<>> /\ apiParams = ""

\* parse_args' warning, then creds = parseCredentials(args) unless --local
Start ==
    /\ pc = "start"
    /\ \E environ \in {"", "ZW52"} :
         LET c == parseCredentials(args, environ, [usr |-> "bob", passwd |-> "pw"])
         IN  /\ creds' = IF NeedsCreds(args) THEN c.token ELSE creds
             /\ credsLog' = IF NeedsCreds(args) THEN credsLog \o c.log ELSE credsLog
    /\ stdout' = IF args.local /\ args.input_dir = "" /\ args.input_file = NoFile
                 THEN Append(stdout, Message("You need to specify a file(-f) or director(-d) for --local processing."))
                 ELSE stdout
    /\ pc' = "dir"
    /\ UNCHANGED <<args, err, idx, requests, files, files0, outputData, result,
                   apiParams>>

InDirLoop == pc = "dir" /\ args.input_dir # "" /\ idx < NumEntries

\* the for loop is over, or there is no --dir
DirDone ==
    /\ pc = "dir" /\ ~InDirLoop
    /\ pc' = "file"
    /\ UNCHANGED <<args, err, idx, creds, credsLog, requests, files, files0,
                   outputData, result, stdout, apiParams>>

\* if args.local: parseTranscript(readLocalTranscript(inputFileName), args)
DirLocal ==
    /\ InDirLoop /\ args.local
    /\ \E content \in LocalContents :
         LET rd == readLocalTranscript(content)
             r  == IF rd.exc = "" THEN parseTranscript(rd.data, args)
                   ELSE Raised(rd.exc)
         IN  /\ result' = r
             /\ stdout' = Append(stdout, Message("Reading from disk")) \o r.out
             /\ err' = IF r.ret \in {"value", "None"} THEN "" ELSE r.ret
             /\ pc' = NextPc(err', "dir")
    /\ idx' = idx + 1
    /\ UNCHANGED <<args, creds, credsLog, requests, files, files0, outputData,
                   apiParams>>

\* elif os.path.isfile(outputFileName) and args.keep
DirKeep ==
    /\ InDirLoop /\ ~args.local
    /\ files[OutputName(Listing[idx + 1])] # NoContent /\ args.keep
    /\ stdout' = Append(stdout, Message("Transcript already exists for audio file, and --keep is set."))
    /\ idx' = idx + 1
    /\ UNCHANGED <<args, pc, err, creds, credsLog, requests, files, files0,
                   outputData, result, apiParams>>

\* a request of the log, with the step of main and the input it was sent for
Tagged(sent, step, name) ==
    [i \in 1..Len(sent) |->
        [step |-> step, name |-> name, contentType |-> sent[i].contentType,
         payload |-> sent[i].payload, authorization |-> sent[i].authorization,
         apiRequest |-> sent[i].apiRequest, host |-> sent[i].host]]

\* else: outputData = getTranscipt(args, inputFileName)
DirRequest ==
    /\ InDirLoop /\ ~args.local
    /\ ~(files[OutputName(Listing[idx + 1])] # NoContent /\ args.keep)
    /\ \E reply \in Replies :
         LET inputFileName == PathJoin(args.input_dir, Listing[idx + 1])
             g == getTranscipt(args, inputFileName, creds, reply)
         IN  /\ requests' = requests \o Tagged(g.sent, "dir", Listing[idx + 1])
             /\ outputData' = g.data
             /\ err' = g.exc
             /\ pc' = NextPc(g.exc, "dir_save")
    /\ stdout' = Append(stdout, Message("Processing"))
    /\ UNCHANGED <<args, idx, creds, credsLog, files, files0, result, apiParams>>

\* saveTranscript(outputData, outputFileName)
DirSave ==
    /\ pc = "dir_save"
    /\ files' = [files EXCEPT ![OutputName(Listing[idx + 1])] = saveTranscript(outputData)]
    /\ pc' = "dir_parse"
    /\ UNCHANGED <<args, err, idx, creds, credsLog, requests, files0, outputData,
                   result, stdout, apiParams>>

\* parseTranscript(outputData, args), then the next iteration
DirParse ==
    /\ pc = "dir_parse"
    /\ result' = parseTranscript(outputData, args)
    /\ stdout' = stdout \o result'.out
    /\ err' = IF result'.ret \in {"value", "None"} THEN "" ELSE result'.ret
    /\ pc' = NextPc(err', "dir")
    /\ idx' = idx + 1
    /\ UNCHANGED <<args, creds, credsLog, requests, files, files0, outputData,
                   apiParams>>

\* there is no --file
FileSkip ==
    /\ pc = "file" /\ args.input_file = NoFile
    /\ pc' = "url"
    /\ UNCHANGED <<args, err, idx, creds, credsLog, requests, files, files0,
                   outputData, result, stdout, apiParams>>

\* if args.local: parseTranscript(readLocalTranscript(args.input_file), args)
FileLocal ==
    /\ pc = "file" /\ args.input_file # NoFile /\ args.local
    /\ \E content \in LocalContents :
         LET rd == readLocalTranscript(content)
             r  == IF rd.exc = "" THEN parseTranscript(rd.data, args)
                   ELSE Raised(rd.exc)
         IN  /\ result' = r
             /\ stdout' = stdout \o r.out
             /\ err' = IF r.ret \in {"value", "None"} THEN "" ELSE r.ret
             /\ pc' = NextPc(err', "url")
    /\ UNCHANGED <<args, idx, creds, credsLog, requests, files, files0,
                   outputData, apiParams>>

\* else: outputData = getTranscipt(args, args.input_file)
FileRequest ==
    /\ pc = "file" /\ args.input_file # NoFile /\ ~args.local
    /\ \E reply \in Replies :
         LET g == getTranscipt(args, args.input_file, creds, reply)
         IN  /\ requests' = requests \o Tagged(g.sent, "file", args.input_file.name)
             /\ outputData' = g.data
             /\ err' = g.exc
             /\ pc' = NextPc(g.exc, "file_save")
    /\ stdout' = Append(stdout, Message("Processing"))
    /\ UNCHANGED <<args, idx, creds, credsLog, files, files0, result, apiParams>>

FileSave ==
    /\ pc = "file_save"
    /\ files' = [files EXCEPT ![OutputName(args.input_file.name)] = saveTranscript(outputData)]
    /\ pc' = "file_parse"
    /\ UNCHANGED <<args, err, idx, creds, credsLog, requests, files0, outputData,
                   result, stdout, apiParams>>

FileParse ==
    /\ pc = "file_parse"
    /\ result' = parseTranscript(outputData, args)
    /\ stdout' = stdout \o result'.out
    /\ err' = IF result'.ret \in {"value", "None"} THEN "" ELSE result'.ret
    /\ pc' = NextPc(err', "url")
    /\ UNCHANGED <<args, idx, creds, credsLog, requests, files, files0,
                   outputData, apiParams>>

\* there is no --url: main returns
UrlSkip ==
    /\ pc = "url" /\ args.url = ""
    /\ pc' = "done"
    /\ UNCHANGED <<args, err, idx, creds, credsLog, requests, files, files0,
                   outputData, result, stdout, apiParams>>

\* getTranscipt(args), the argument of parseTranscript
UrlRequest ==
    /\ pc = "url" /\ args.url # ""
    /\ \E reply \in Replies :
         LET g == getTranscipt(args, NoFile, creds, reply)
         IN  /\ requests' = requests \o Tagged(g.sent, "url", args.url)
             /\ outputData' = g.data
             /\ err' = g.exc
             /\ pc' = NextPc(g.exc, "url_parse")
    /\ UNCHANGED <<args, idx, creds, credsLog, files, files0, result, stdout,
                   apiParams>>

\* outputData = parseTranscript(..., args); then `if arg.output_folder:`
\* looks up the name arg, which nothing binds: NameError
UrlParse ==
    /\ pc = "url_parse"
    /\ result' = parseTranscript(outputData, args)
    /\ stdout' = stdout \o result'.out
    /\ err' = IF result'.ret \in {"value", "None"} THEN "NameError" ELSE result'.ret
    /\ pc' = NextPc(err', "done")
    /\ UNCHANGED <<args, idx, creds, credsLog, requests, files, files0,
                   outputData, apiParams>>

Next ==
    \/ Start
    \/ DirDone \/ DirLocal \/ DirKeep \/ DirRequest \/ DirSave \/ DirParse
    \/ FileSkip \/ FileLocal \/ FileRequest \/ FileSave \/ FileParse
    \/ UrlSkip \/ UrlRequest \/ UrlParse

Spec == Init /\ [][Next]_vars

----------------------------------------------------------------------------
(* Claims *)

RequestsFor(name) ==
    {i \in DOMAIN requests : requests[i].step # "url" /\ requests[i].name = name}

\* C1: in a non-local run with --keep, an input (the --file input or a --dir
\* entry) whose output file existed before the run gets no request and its
\* output file keeps its content.
C1_KeepSkipsExisting ==
    (args.keep /\ ~args.local) =>
        \A n \in InputNames(args) :
            files0[OutputName(n)] # NoContent =>
                /\ RequestsFor(n) = {}
                /\ files[OutputName(n)] = files0[OutputName(n)]

\* the input main is working on between its request and its projection
CurrentName ==
    IF pc \in {"dir_save", "dir_parse"} THEN Listing[idx + 1]
    ELSE args.input_file.name

\* main is about to project, with --search and without --verbose, a response
\* that has a transcript and no search field
ProjectsNoSearch ==
    /\ pc \in {"dir_parse", "file_parse"}
    /\ ~args.verbose /\ args.search # <<>>
    /\ outputData.hasAlt /\ ~outputData.hasSearch

\* C2 as stated: for a response without search data and with --search, the
\* diagnostic is printed, parseTranscript returns nothing and no transcript
\* file is written for the input.
C2_NoSearchNoFile ==
    [][ProjectsNoSearch =>
          /\ result'.ret = "None"
          /\ stdout' = Append(stdout, NoSearchMessage)
          /\ files'[OutputName(CurrentName)] = files0[OutputName(CurrentName)]]_vars

\* C2 amended: for a response with a transcript and without search data, and
\* with --search, the diagnostic is printed and parseTranscript returns
\* nothing and prints no record; the transcript file of the input has been
\* written before, holds the raw response, and the projection leaves it.
C2_NoSearchNoRecord ==
    [][ProjectsNoSearch =>
          /\ result'.ret = "None" /\ result'.value = NoRecord
          /\ stdout' = Append(stdout, NoSearchMessage)
          /\ files[OutputName(CurrentName)] = Dumps(outputData)
          /\ files' = files]_vars

C2_Witness ==
    /\ ~args.local /\ ~args.verbose /\ args.search # <<>>
    /\ result.ret = "None"
    /\ Len(stdout) > 0 /\ stdout[Len(stdout)] = NoSearchMessage
    /\ outputData.hasAlt /\ ~outputData.hasSearch
    /\ \E n \in OutputNames : files[n] = Dumps(outputData) /\ files0[n] # files[n]

\* the groups of a search array whose query is w
GroupsOf(search, w) == {i \in DOMAIN search : search[i].query = w}

\* C3: with a threshold t in [0,1] (0 included), without --verbose and without
\* the sentinel 'all', the hits under a requested term w are the hits of w's
\* group whose confidence is at least t, and the key w is absent when there
\* is no such hit.
C3_ThresholdFilter ==
    (/\ pc = "projected" /\ result.ret = "value"
     /\ ~args.verbose /\ args.search # <<"all">>
     /\ args.search_threshold \in 0..10) =>
        \A w \in Words :
            \A i \in GroupsOf(outputData.search, w) :
                (InSeq(w, args.search) /\ GroupsOf(outputData.search, w) = {i}) =>
                    LET kept == FilterHits(outputData.search[i].hits,
                                           args.search_threshold)
                    IN  IF kept = <<>>
                        THEN w \notin DOMAIN result.value.words
                        ELSE /\ w \in DOMAIN result.value.words
                             /\ result.value.words[w].hits = kept

\* C4: the transcript file a live run on a --file input has written, read
\* back by readLocalTranscript and projected with the same output flags,
\* gives what the live run's projection gives.
C4_LocalRoundTrip ==
    [][pc = "file_parse" =>
          LET rd == readLocalTranscript(files[OutputName(args.input_file.name)])
          IN  /\ rd.exc = ""
              /\ parseTranscript(rd.data, args) = result']_vars

C4_Witness ==
    /\ ~args.local /\ args.input_file # NoFile /\ pc = "url"
    /\ args.search_threshold = 5
    /\ result.ret = "value" /\ result.value.kind = "dict"
    /\ "foo" \in DOMAIN result.value.words
    /\ Len(result.value.words["foo"].hits) < Len(outputData.search[1].hits)
    /\ files[OutputName(args.input_file.name)] = Dumps(outputData)

\* C5: with --verbose parseTranscript returns the response itself, whatever
\* --search and --search-threshold are and whatever the response lacks.
C5_VerboseIdentity ==
    (pc = "projected" /\ args.verbose) =>
        /\ result.ret = "value"
        /\ result.value.kind = "full"
        /\ result.value.full = outputData
        /\ stdout = <<JsonLine(FullRecord(outputData))>>

C5_Witness ==
    /\ pc = "projected" /\ args.verbose
    /\ args.search # <<>> /\ args.search_threshold = 5
    /\ ~outputData.hasAlt /\ ~outputData.hasSearch
    /\ result.value.full = outputData

\* the key=value pairs of the flags that are set, in the order model,
\* language, punctuate, redact, search terms, raw parameters
QueryPairs(a) ==
    (IF a.model # "" THEN <<"model=" \o a.model>> ELSE <<>>)
    \o (IF a.language # "" THEN <<"language=" \o a.language>> ELSE <<>>)
    \o (IF a.punctuate THEN <<"punctuate=true">> ELSE <<>>)
    \o (IF a.redact # "" THEN <<"redact=" \o a.redact>> ELSE <<>>)
    \o [i \in 1..Len(a.search) |-> "search=" \o a.search[i]]
    \o (IF a.params # "" THEN <<a.params>> ELSE <<>>)

RECURSIVE JoinPairs(_, _)
JoinPairs(pairs, i) ==
    IF i > Len(pairs) THEN ""
    ELSE (IF i = 1 THEN "?" ELSE "&") \o pairs[i] \o JoinPairs(pairs, i + 1)

\* C6: parseQuery returns the pairs of the set flags in the fixed order, the
\* first after '?' and every later one after '&'; --model general with
\* --language fr gives '?model=general&language=fr'.
C6_QueryString ==
    pc = "queried" =>
        /\ apiParams = JoinPairs(QueryPairs(args), 1)
        /\ (args = [DefaultArgs EXCEPT !.model = "general", !.language = "fr"]
               => apiParams = "?model=general&language=fr")

C6_Witness ==
    /\ pc = "queried"
    /\ args.model = "general" /\ Len(args.search) >= 2 /\ args.params # ""
    /\ apiParams = JoinPairs(QueryPairs(args), 1)

\* C7: a --local run never resolves credentials and never sends a request.
C7_LocalIsOffline ==
    args.local => /\ creds = "" /\ credsLog = <<>>
                  /\ requests = <<>>

C7_Witness ==
    /\ args.local /\ args.url # "" /\ args.input_dir # ""
    /\ args.input_file # NoFile
    /\ pc = "crashed" /\ err = "NameError" /\ idx = NumEntries

\* C8: the request sent for a --dir entry carries that entry's file, and the
\* transcript file of the entry holds the response for that file, also when
\* --file is given with --dir.
C8_DirPayload ==
    \A i \in DOMAIN requests :
        requests[i].step = "dir" =>
            LET own == PathStr(PathJoin(args.input_dir, requests[i].name))
                out == files[OutputName(requests[i].name)]
            IN  /\ requests[i].payload = own
                /\ (out # files0[OutputName(requests[i].name)]
                       => Loads(out).sha256 = own)

\* C9: a non-local run with --url alone whose response is well formed
\* projects it and then completes without an unhandled error.
C9_UrlRunCompletes ==
    (/\ ~args.local /\ args.url # ""
     /\ args.input_file = NoFile /\ args.input_dir = ""
     /\ result.ret = "value") =>
        (pc = "done" /\ err = "")

DirRequests == {i \in DOMAIN requests : requests[i].step = "dir"}

\* the lines parseTranscript printed when it returned
ProjectionLines ==
    {i \in DOMAIN stdout : stdout[i].text \in {"json", NoSearchMessage.text}}

C10_OneRequestPerEntry ==
    \A i, j \in DirRequests : requests[i].name = requests[j].name => i = j

C10_Step ==
    \* a request for an entry: the earlier entries are persisted and projected
    /\ (pc = "dir" /\ requests' # requests) =>
          /\ \A i \in DirRequests :
                LET out == files[OutputName(requests[i].name)]
                IN  IsJson(out) /\ Loads(out).sha256 = requests[i].payload
          /\ Cardinality(ProjectionLines) = Cardinality(DirRequests)
    \* after a failure: no request, no write
    /\ err # "" => (requests' = requests /\ files' = files)
    \* a response without search data: the loop goes on
    /\ (ProjectsNoSearch /\ pc = "dir_parse") =>
          (pc' = "dir" /\ err' = "" /\ idx' = idx + 1)

\* C10: a --dir batch handles its entries one after another with at most one
\* request each; an entry is requested only once the earlier ones are
\* persisted and projected; a failed request or decode ends the batch with
\* no further request and the written files left; an entry whose response
\* only lacks search data does not end the batch.
C10_SequentialBatch == [](C10_OneRequestPerEntry) /\ [][C10_Step]_vars

C10_Witness ==
    /\ ~args.local /\ ~args.verbose /\ args.search # <<>>
    /\ pc = "crashed" /\ err \in {"ConnectionError", "JSONDecodeError"}
    /\ idx = 1 /\ Cardinality(DirRequests) = 2
    /\ IsJson(files[OutputName(Listing[1])])
    /\ Loads(files[OutputName(Listing[1])]).sha256 = requests[1].payload
    /\ ~Loads(files[OutputName(Listing[1])]).hasSearch

====
